---- MODULE Spec2Model ----
(***************************************************************************)
(* TargetLayout (packages/web/app/src/components/layouts/target.tsx).      *)
(*                                                                         *)
(* The component is a function of two urql query states (targets, project) *)
(* and of the route.  Every change of a query state re-renders it: the     *)
(* body is evaluated (derivations, render branch) and then the effects     *)
(* whose dependencies changed are run.  An action of this model is one     *)
(* query-state change together with the render and the effect flush that   *)
(* it causes.                                                              *)
(***************************************************************************)
EXTENDS Bags, FiniteSets, Integers, Sequences, TLC

VARIABLES
  targetsQuery,  \* [targetsQuery] = useQuery(TargetsDocument): fetching, data, error, stale
  projectQuery,  \* [projectQuery] = useQuery(ProjectDocument): fetching, data, error, stale
  router,        \* which object useRouteSelector() returned in the last render
  results,       \* how many results each query has delivered
  pushes,        \* bag of the router.push('/404', ...) calls issued so far
  view,          \* what the last render returned
  mounted        \* the component is on the page

vars == <<targetsQuery, projectQuery, router, results, pushes, view, mounted>>

(* ---------------------------- bounds ---------------------------------- *)

\* largest "total" a targets result reports
MaxTotal == 2
\* results the two queries deliver over a run (first fetches, stale
\* follow-ups, refetches)
MaxResults == 2
\* renders over a run in which useRouteSelector returns a new object
MaxRouters == 1

(* ---------------------------- values ---------------------------------- *)

\* JavaScript undefined and null: both falsy, distinct under Object.is
Undefined == [kind |-> "undefined"]
Null == [kind |-> "null"]

\* !x for a value that is an object, null or undefined
Falsy(x) == x = Undefined \/ x = Null

\* route parameters: /acme/api/prod#readme
orgId == "acme"
projectId == "api"
targetId == "prod"
asPath == [pathname |-> <<orgId, projectId, targetId>>, hash |-> "#readme"]

\* router.asPath.replace(/#.*/, '')
StripHash(p) == [p EXCEPT !.hash = ""]

\* a template literal `/${a}/${b}/...` as its sequence of segments
Href(segments) == [pathname |-> segments, hash |-> ""]

CleanIds == {"prod", "stage"}
TargetName == [id \in CleanIds |-> IF id = "prod" THEN "Production" ELSE "Staging"]
Node(id) == [cleanId |-> id, name |-> TargetName[id]]

\* node lists: clean identifiers are unique within a project
NodeLists ==
  { s \in UNION { [1..n -> CleanIds] : n \in 0..Cardinality(CleanIds) } :
      \A i, j \in 1..Len(s) : i # j => s[i] # s[j] }

TargetsData ==
  { [targets |-> [nodes |-> [i \in 1..Len(s) |-> Node(s[i])], total |-> t]] :
      s \in NodeLists, t \in 0..MaxTotal }

Scopes == {"Read", "RegistryRead", "Settings"}
Members == { [targetAccessScopes |-> S] : S \in SUBSET Scopes }
Organizations == { [name |-> "Acme", me |-> m] : m \in Members }
Projects == { [name |-> "API", type |-> "FEDERATION"] }

ProjectData ==
  { [organization |-> [organization |-> o], project |-> p] :
      o \in Organizations \cup {Null}, p \in Projects \cup {Null} }

Queries == {"targets", "project"}

\* enum TabValue, in declaration order
TabValue == <<"schema", "history", "operations", "laboratory", "settings">>

\* the value prop: the page that uses the layout is the schema page
value == TabValue[1]

(* ----------------- derivations of the render body --------------------- *)

targets == IF targetsQuery.data = Undefined THEN Undefined ELSE targetsQuery.data.targets

\* targets?.nodes.find(node => node.cleanId === targetId)
target ==
  IF targets = Undefined THEN Undefined
  ELSE LET hits == { i \in 1..Len(targets.nodes) : targets.nodes[i].cleanId = targetId }
       IN  IF hits = {} THEN Undefined
           ELSE targets.nodes[CHOOSE i \in hits : \A j \in hits : i <= j]

org ==
  IF projectQuery.data = Undefined THEN Undefined
  ELSE projectQuery.data.organization.organization

project == IF projectQuery.data = Undefined THEN Undefined ELSE projectQuery.data.project

\* org?.me
me == IF Falsy(org) THEN Undefined ELSE org.me

\* Object.is on values read out of query data: null and undefined are
\* themselves, an object is the one the query's n-th result delivered (a
\* refetch keeps the data, a new result brings new objects)
Identity(x, n) == IF Falsy(x) THEN x ELSE [object |-> x, result |-> n]

(* ------------------------ access (lib/access/target) ------------------ *)

\* the actor holds the scope; an absent member record holds none
canAccessTarget(scope, member) ==
  member # Undefined /\ scope \in member.targetAccessScopes

\* useTargetAccess: the outcomes its side effect can have in a render, TRUE
\* for a redirect away.  It redirects when redirect is set and the actor lacks
\* the scope; what it does while there is no member record is not stated, so
\* both outcomes are possible then.
useTargetAccess(scope, member, redirect) ==
  IF ~redirect THEN {FALSE}
  ELSE IF member = Undefined THEN BOOLEAN
  ELSE {~canAccessTarget(scope, member)}

canAccessSchema == canAccessTarget("RegistryRead", me)
canAccessSettings == canAccessTarget("Settings", me)

(* ----------------------------- effects -------------------------------- *)

Effects == {"targetMissing", "projectMissing"}

\* mutant: the guard looks at the list instead of the node found in it
TargetMissingNoList == ~targetsQuery.fetching /\ targets = Undefined

\* mutant: the guard also waits for the project fetch
TargetMissingBothSettled ==
  ~targetsQuery.fetching /\ ~projectQuery.fetching /\ target = Undefined

\* if (!targetsQuery.fetching && !target)
TargetMissing == ~targetsQuery.fetching /\ target = Undefined
\* [router, target, targetsQuery.fetching], compared by Object.is
targetDeps == <<router, Identity(target, results["targets"]), targetsQuery.fetching>>

\* mutant: a failed fetch is left to the error display
ProjectMissingUnlessError ==
  ~projectQuery.fetching /\ ~projectQuery.error /\ Falsy(project)

\* if (!projectQuery.fetching && !project)
ProjectMissing == ~projectQuery.fetching /\ Falsy(project)
\* [router, project, projectQuery.fetching], compared by Object.is
projectDeps == <<router, Identity(project, results["project"]), projectQuery.fetching>>

\* useTargetAccess({ scope: Read, member: me, redirect: true }); the value
\* it returns is not used, and its redirect is a navigation of its own that
\* the render below does not wait for
ReadAccessRedirect == useTargetAccess("Read", me, TRUE)

\* router.push(url, as), tagged with the effect that issued it
NotFoundPush(by) == [by |-> by, url |-> "/404", as |-> StripHash(asPath)]

\* the pushes of the effects that run on mount
MountPushes ==
  (IF TargetMissing THEN SetToBag({NotFoundPush("targetMissing")}) ELSE EmptyBag)
  (+) (IF ProjectMissing THEN SetToBag({NotFoundPush("projectMissing")}) ELSE EmptyBag)

\* the pushes of the effects whose dependencies changed in this render
UpdatePushes ==
  (IF targetDeps' # targetDeps /\ TargetMissing'
     THEN SetToBag({NotFoundPush("targetMissing")}) ELSE EmptyBag)
  (+) (IF projectDeps' # projectDeps /\ ProjectMissing'
     THEN SetToBag({NotFoundPush("projectMissing")}) ELSE EmptyBag)

(* ------------------------------ render -------------------------------- *)

\* {org && project && (...)}: organization link, then project link
Breadcrumb ==
  IF ~Falsy(org) /\ ~Falsy(project)
    THEN << [href |-> Href(<<orgId>>), text |-> org.name],
            [href |-> Href(<<orgId, projectId>>), text |-> project.name] >>
    ELSE << >>

\* {target?.name}
HeadingText == IF target = Undefined THEN "" ELSE target.name

\* targets.nodes.map(node => node.cleanId !== targetId && <Item/>)
DropdownItems ==
  LET others == SelectSeq(targets.nodes, LAMBDA node : node.cleanId # targetId)
  IN  [i \in 1..Len(others) |->
         [key  |-> others[i].cleanId,
          href |-> Href(<<orgId, projectId, others[i].cleanId>>),
          text |-> others[i].name]]

\* mutant: the dropdown is decided by the number of nodes
DropdownByLength ==
  IF targets # Undefined /\ Len(targets.nodes) > 1
    THEN [shown |-> TRUE, items |-> DropdownItems]
    ELSE [shown |-> FALSE, items |-> << >>]

\* {targets && targets.total > 1 && (<DropdownMenu>...)}
Dropdown ==
  IF targets # Undefined /\ targets.total > 1
    THEN [shown |-> TRUE, items |-> DropdownItems]
    ELSE [shown |-> FALSE, items |-> << >>]

\* {project?.type}
ProjectType == IF Falsy(project) THEN "" ELSE project.type

Trigger(tab, suffix) ==
  [value |-> tab, href |-> Href(<<orgId, projectId, targetId>> \o suffix)]

\* mutant: the Laboratory trigger is gated by the settings capability
TabsListLaboratoryBySettings ==
     (IF canAccessSchema THEN <<Trigger(TabValue[1], << >>)>> ELSE << >>)
  \o (IF canAccessSchema THEN <<Trigger(TabValue[2], <<"history">>)>> ELSE << >>)
  \o (IF canAccessSchema THEN <<Trigger(TabValue[3], <<"operations">>)>> ELSE << >>)
  \o (IF canAccessSettings THEN <<Trigger(TabValue[4], <<"laboratory">>)>> ELSE << >>)
  \o (IF canAccessSettings THEN <<Trigger(TabValue[5], <<"settings">>)>> ELSE << >>)

\* <Tabs.List>
TabsList ==
     (IF canAccessSchema THEN <<Trigger(TabValue[1], << >>)>> ELSE << >>)
  \o (IF canAccessSchema THEN <<Trigger(TabValue[2], <<"history">>)>> ELSE << >>)
  \o (IF canAccessSchema THEN <<Trigger(TabValue[3], <<"operations">>)>> ELSE << >>)
  \o (IF canAccessSchema THEN <<Trigger(TabValue[4], <<"laboratory">>)>> ELSE << >>)
  \o (IF canAccessSettings THEN <<Trigger(TabValue[5], <<"settings">>)>> ELSE << >>)

\* <Tabs.Content value={value}>{children({ target, project, organization: org })}
TabsContent ==
  [value |-> value,
   children |-> [target |-> target, project |-> project, organization |-> org]]

Layout ==
  [phase      |-> "layout",
   breadcrumb |-> Breadcrumb,
   heading    |-> HeadingText,
   dropdown   |-> Dropdown,
   type       |-> ProjectType,
   tabs       |-> TabsList,
   content    |-> TabsContent]

\* <QueryError error={projectQuery.error || targetsQuery.error} />
QueryError == [phase |-> "error", of |-> IF projectQuery.error THEN "project" ELSE "targets"]

Spinner == [phase |-> "spinner"]

\* mutant: the error branch is tested before the fetching branch
RenderErrorFirst ==
  IF projectQuery.error \/ targetsQuery.error THEN QueryError
  ELSE IF projectQuery.fetching \/ targetsQuery.fetching THEN Spinner
  ELSE Layout

\* the three return statements of the component
Render ==
  IF projectQuery.fetching \/ targetsQuery.fetching THEN Spinner
  ELSE IF projectQuery.error \/ targetsQuery.error THEN QueryError
  ELSE Layout

(* ----------------------------- actions -------------------------------- *)

\* results delivered so far
Delivered == results["targets"] + results["project"]

\* useQuery before its first result
Fetching == [fetching |-> TRUE, data |-> Undefined, error |-> FALSE, stale |-> FALSE]

Init ==
  /\ targetsQuery = Fetching
  /\ projectQuery = Fetching
  /\ router = 0
  /\ results = [q \in Queries |-> 0]
  /\ mounted = TRUE
  /\ view = Render
  /\ pushes = MountPushes

\* render, then run the effects whose dependencies changed; the render's
\* useRouteSelector() returns the object of the last render or a new one
Commit(fresh) ==
  /\ fresh => router < MaxRouters
  /\ router' = IF fresh THEN router + 1 ELSE router
  /\ view' = Render'
  /\ pushes' = pushes (+) UpdatePushes

\* what a query settles to: a cached result (stale, revalidated in the
\* background by cache-and-network) or a network result; a result without
\* data carries an error
Settled(d, e, s) == [fetching |-> FALSE, data |-> d, error |-> e, stale |-> s]

TargetsResult(d, e, s, fresh) ==
  /\ mounted
  /\ Delivered < MaxResults
  /\ targetsQuery.fetching \/ targetsQuery.stale
  /\ s => (targetsQuery.fetching /\ d # Undefined /\ ~e)
  /\ d = Undefined => e
  /\ targetsQuery' = Settled(d, e, s)
  /\ results' = [results EXCEPT !["targets"] = @ + 1]
  /\ UNCHANGED <<projectQuery, mounted>>
  /\ Commit(fresh)

ProjectResult(d, e, s, fresh) ==
  /\ mounted
  /\ Delivered < MaxResults
  /\ projectQuery.fetching \/ projectQuery.stale
  /\ s => (projectQuery.fetching /\ d # Undefined /\ ~e)
  /\ d = Undefined => e
  /\ projectQuery' = Settled(d, e, s)
  /\ results' = [results EXCEPT !["project"] = @ + 1]
  /\ UNCHANGED <<targetsQuery, mounted>>
  /\ Commit(fresh)

\* the query is executed again: fetching, with the previous data kept
TargetsRefetch(fresh) ==
  /\ mounted
  /\ Delivered < MaxResults
  /\ ~targetsQuery.fetching
  /\ targetsQuery' = [targetsQuery EXCEPT !.fetching = TRUE, !.stale = FALSE]
  /\ UNCHANGED <<projectQuery, results, mounted>>
  /\ Commit(fresh)

ProjectRefetch(fresh) ==
  /\ mounted
  /\ Delivered < MaxResults
  /\ ~projectQuery.fetching
  /\ projectQuery' = [projectQuery EXCEPT !.fetching = TRUE, !.stale = FALSE]
  /\ UNCHANGED <<targetsQuery, results, mounted>>
  /\ Commit(fresh)

\* the parent renders the layout again: no query state changed, so an
\* effect runs again only if the router object is a new one
Rerender(fresh) ==
  /\ mounted
  /\ UNCHANGED <<targetsQuery, projectQuery, results, mounted>>
  /\ Commit(fresh)

\* the page is left: a pushed navigation completes (to /404, or the redirect
\* of useTargetAccess), or the user navigates away
Unmount ==
  /\ mounted
  /\ mounted' = FALSE
  /\ view' = [phase |-> "unmounted"]
  /\ UNCHANGED <<targetsQuery, projectQuery, router, results, pushes>>

Next ==
  \/ \E d \in TargetsData \cup {Undefined}, e, s, fresh \in BOOLEAN :
       TargetsResult(d, e, s, fresh)
  \/ \E d \in ProjectData \cup {Undefined}, e, s, fresh \in BOOLEAN :
       ProjectResult(d, e, s, fresh)
  \/ \E fresh \in BOOLEAN : TargetsRefetch(fresh)
  \/ \E fresh \in BOOLEAN : ProjectRefetch(fresh)
  \/ \E fresh \in BOOLEAN : Rerender(fresh)
  \/ Unmount

Spec == Init /\ [][Next]_vars

(* ------------------------------ claims -------------------------------- *)

\* number of router.push('/404', ...) calls issued so far
NotFoundCount ==
  CopiesIn(NotFoundPush("targetMissing"), pushes)
    + CopiesIn(NotFoundPush("projectMissing"), pushes)

\* C1 (as claimed): once the targets fetch has settled and the route's target
\* is not in the fetched list, exactly one redirect to /404 has been issued
\* over the whole run.
C1_NotFoundExactlyOnce ==
  (results["targets"] >= 1 /\ TargetMissing) => NotFoundCount = 1

\* C2 is about what useTargetAccess does, in particular with an absent member
\* record.  The hook is in lib/access/target; TargetLayout only calls it
\* (lines 83-87) and passes me = org?.me with redirect: true.  Both outcomes
\* of the hook for an absent record are outcomes of this model, so no formula
\* over it settles C2.

\* C3 (as claimed): the main layout is never rendered for an actor who lacks
\* the read scope.
C3_NoLayoutWithoutRead ==
  view.phase = "layout" => canAccessTarget("Read", me)

\* C4: every render shows exactly one of three phases: the spinner whenever
\* either fetch is in flight, the error display whenever neither is in flight
\* and either reports an error, the layout only when both settled without error.
C4_ThreePhases ==
  mounted =>
    /\ view.phase \in {"spinner", "error", "layout"}
    /\ (projectQuery.fetching \/ targetsQuery.fetching) => view.phase = "spinner"
    /\ ( /\ ~projectQuery.fetching /\ ~targetsQuery.fetching
         /\ (projectQuery.error \/ targetsQuery.error) ) => view.phase = "error"
    /\ view.phase = "layout" =>
         /\ ~projectQuery.fetching /\ ~targetsQuery.fetching
         /\ ~projectQuery.error /\ ~targetsQuery.error

\* C4 witness: the spinner is shown while one fetch is in flight although the
\* other has already reported an error.
C4_Witness ==
  /\ mounted /\ view.phase = "spinner"
  /\ projectQuery.fetching
  /\ ~targetsQuery.fetching /\ targetsQuery.error

\* C5 (as claimed): whenever the children function is invoked, target,
\* project and organization are all defined and the target is the node of the
\* fetched list whose cleanId is the route's target identifier.
C5_ChildrenGetResolved ==
  view.phase = "layout" =>
    LET args == view.content.children IN
    /\ args.target # Undefined
    /\ ~Falsy(args.project)
    /\ ~Falsy(args.organization)
    /\ args.target.cleanId = targetId
    /\ \E i \in 1..Len(targets.nodes) : targets.nodes[i] = args.target

\* C6: a settled project fetch without a project, and a settled targets fetch
\* with an empty list, each have pushed /404; and a missing resource alone
\* (no fetch error) never shows the error display.
C6_MissingIsNavigation ==
  /\ ProjectMissing =>
       \E p \in BagToSet(pushes) : p.by = "projectMissing" /\ p.url = "/404"
  /\ (~targetsQuery.fetching /\ targets # Undefined /\ targets.nodes = << >>) =>
       \E p \in BagToSet(pushes) : p.by = "targetMissing" /\ p.url = "/404"
  /\ ( /\ mounted
       /\ ProjectMissing \/ TargetMissing
       /\ ~projectQuery.error /\ ~targetsQuery.error ) => view.phase # "error"

\* C6 witness: the target list was fetched without error and is empty, the
\* layout phase is shown and /404 has been pushed.
C6_Witness ==
  /\ mounted /\ view.phase = "layout"
  /\ targets # Undefined /\ targets.nodes = << >>
  /\ ~Falsy(project)
  /\ CopiesIn(NotFoundPush("targetMissing"), pushes) = 1

\* the tab values of the rendered triggers, in render order
RenderedTabs == [i \in 1..Len(view.tabs) |-> view.tabs[i].value]

Holds(scope) == me # Undefined /\ scope \in me.targetAccessScopes

\* C7: in the layout the triggers are decided by the actor's scopes: Schema,
\* History, Operations, Laboratory all present iff registry-read is held,
\* Settings present iff the settings scope is held, always in the fixed order.
C7_TabsByScope ==
  view.phase = "layout" =>
    LET shown == { RenderedTabs[i] : i \in 1..Len(RenderedTabs) } IN
    /\ \A t \in {"schema", "history", "operations", "laboratory"} :
         t \in shown <=> Holds("RegistryRead")
    /\ "settings" \in shown <=> Holds("Settings")
    /\ \A i, j \in 1..Len(RenderedTabs) :
         i < j => \E a, b \in 1..Len(TabValue) :
                    a < b /\ TabValue[a] = RenderedTabs[i] /\ TabValue[b] = RenderedTabs[j]

\* C7 witness: an actor with settings but without registry-read sees the
\* Settings trigger alone.
C7_Witness ==
  /\ view.phase = "layout"
  /\ me # Undefined /\ me.targetAccessScopes = {"Read", "Settings"}
  /\ RenderedTabs = <<"settings">>

\* C8 (as claimed): the dropdown is rendered iff the fetched list has more
\* than one node, and then lists every node but the current one, in order,
\* each linking to /{org}/{project}/{cleanId}, whatever total is reported.
C8_DropdownByLength ==
  view.phase = "layout" =>
    LET nodes == IF targets = Undefined THEN << >> ELSE targets.nodes
        others == SelectSeq(nodes, LAMBDA n : n.cleanId # targetId)
    IN  /\ view.dropdown.shown <=> Len(nodes) > 1
        /\ view.dropdown.shown =>
             /\ Len(view.dropdown.items) = Len(others)
             /\ \A i \in 1..Len(others) :
                  /\ view.dropdown.items[i].text = others[i].name
                  /\ view.dropdown.items[i].href.pathname
                       = <<orgId, projectId, others[i].cleanId>>

\* C8 (amended): the dropdown is rendered iff a list was fetched and its
\* reported total exceeds 1; when rendered it lists every node but the current
\* one, in list order, each linking to /{org}/{project}/{cleanId}.
C8_DropdownByTotal ==
  view.phase = "layout" =>
    LET nodes == IF targets = Undefined THEN << >> ELSE targets.nodes
        others == SelectSeq(nodes, LAMBDA n : n.cleanId # targetId)
    IN  /\ view.dropdown.shown <=> (targets # Undefined /\ targets.total > 1)
        /\ view.dropdown.shown =>
             /\ Len(view.dropdown.items) = Len(others)
             /\ \A i \in 1..Len(others) :
                  /\ view.dropdown.items[i].text = others[i].name
                  /\ view.dropdown.items[i].href.pathname
                       = <<orgId, projectId, others[i].cleanId>>

\* C8 witness: targets prod and stage with total 2, seen from prod: the
\* dropdown shows the one entry Staging linking to /acme/api/stage.
C8_Witness ==
  /\ view.phase = "layout"
  /\ targets # Undefined /\ targets.total = 2
  /\ targets.nodes = <<Node("prod"), Node("stage")>>
  /\ view.dropdown.shown
  /\ view.dropdown.items =
       << [key |-> "stage", href |-> Href(<<"acme", "api", "stage">>), text |-> "Staging"] >>

\* C9: a fetch that settled with an error and no data has also pushed /404:
\* in the error phase the redirect accompanies the error display.
C9_ErrorWithoutDataRedirects ==
  /\ (~targetsQuery.fetching /\ targetsQuery.error /\ targetsQuery.data = Undefined) =>
       CopiesIn(NotFoundPush("targetMissing"), pushes) >= 1
  /\ (~projectQuery.fetching /\ projectQuery.error /\ projectQuery.data = Undefined) =>
       CopiesIn(NotFoundPush("projectMissing"), pushes) >= 1

\* C9 witness: the error display is shown for a targets fetch that failed
\* without data, and /404 has been pushed as well.
C9_Witness ==
  /\ mounted /\ view.phase = "error"
  /\ targetsQuery.error /\ targetsQuery.data = Undefined
  /\ ~projectQuery.error /\ ~Falsy(project)
  /\ NotFoundCount = 1

\* the phase the two settled results call for
FinalPhase ==
  IF projectQuery.error \/ targetsQuery.error THEN "error" ELSE "layout"

\* C10: when each fetch has delivered its one result, the phase and the set
\* of not-found redirects issued are a function of the two results alone,
\* whichever result arrived first; each is issued once as long as every
\* render saw the same router object.
C10_OrderIndependent ==
  ( /\ results["targets"] = 1 /\ results["project"] = 1
    /\ ~targetsQuery.fetching /\ ~projectQuery.fetching ) =>
    /\ mounted => view.phase = FinalPhase
    /\ CopiesIn(NotFoundPush("targetMissing"), pushes) >= 1 <=> target = Undefined
    /\ CopiesIn(NotFoundPush("projectMissing"), pushes) >= 1 <=> Falsy(project)
    /\ router = 0 => \A p \in BagToSet(pushes) : p.url = "/404" => CopiesIn(p, pushes) = 1

\* C10 witness: the targets fetch settled first with its target missing; its
\* redirect is issued while the project fetch is in flight and the spinner shows.
C10_Witness ==
  /\ mounted /\ view.phase = "spinner"
  /\ results["targets"] = 1 /\ results["project"] = 0
  /\ projectQuery.fetching
  /\ CopiesIn(NotFoundPush("targetMissing"), pushes) = 1

====
